---- MODULE Spec2Model ----
(***************************************************************************)
(* Model of the duplicate-file detection engine of Archivizm:              *)
(*   src/Archivizm.py  DuplicateFinderThread (md5, run) and                *)
(*                     DuplicateFinder (find_duplicates, display_duplicates)*)
(*   src/DupeCheck.py  md5, find_duplicates (command-line variant)         *)
(* and of two other parts of src/Archivizm.py:                             *)
(*   DeviceInfoCollector.collect_device_info and Exporter.export_device.   *)
(*                                                                         *)
(* A path is modelled by its index in the enumeration order of os.walk.    *)
(* A file has a content (a byte sequence) and a status: "readable",        *)
(* "unreadable" (listed by os.walk, open() raises) or "absent".            *)
(* The scanned root may hold one subdirectory, whose listing may fail.     *)
(***************************************************************************)
EXTENDS Integers, Sequences, FiniteSets, TLC

\* ------------------------------------------------------------------ bounds
\* Largest number of files in the scanned tree.
MaxFiles == 3

\* Number of pool threads.  ThreadPoolExecutor() without max_workers takes
\* min(32, cpu_count + 4); any size >= 1 is admissible.
PoolSize == 2

\* f.read(8192)
ChunkSize == 8192

\* max_files of collect_device_info, the largest number of files a format
\* scan visits.  The source sets 20000; the model takes a small limit and
\* trees of up to max_files + 2 files, so that the limit is reached.
max_files == 2

Paths == 1..MaxFiles

\* Byte contents a file of the scanned tree may have (the empty file included).
Contents == {<<>>, <<0, 1>>}

\* Python's None, a value different from every string of digits.
None == <<-1>>

VARIABLES
    content,            \* path -> bytes of the file
    fstatus,            \* path -> "readable" | "unreadable" | "absent"
    directory,          \* what dir_input names: "dir" | "file" | "missing"
    in_subdir,          \* path -> TRUE when the file lies in the subdirectory
    sub_listable,       \* TRUE when listing the subdirectory succeeds
    pc,                 \* position of DuplicateFinderThread.run / find_duplicates
    file_paths,         \* run: file_paths
    total_files,        \* run: total_files
    submitted,          \* number of file_paths already given to executor.submit
    task,               \* path -> "none" | "queued" | "running" | "done" | "consumed"
    outcome,            \* path -> what the future of the path holds
    processed,          \* run: processed
    hashes,             \* run: hashes
    duplicates,         \* run: duplicates
    result_all_hashes,  \* DuplicateFinderThread._result_all_hashes
    progress_emitted,   \* values emitted on the progress signal, in order
    finished_emitted,   \* values emitted on the finished signal, in order
    delivered,          \* number of finished emissions handled by the GUI thread
    consumed,           \* paths in the order as_completed yielded their futures
    btn_find_enabled,   \* DuplicateFinder.btn_find.isEnabled()
    duplicates_only,    \* DuplicateFinder.duplicates_only
    all_file_hashes,    \* DuplicateFinder.all_file_hashes
    status_message,     \* last message shown in the status bar
    bar,                \* DupeCheck: number of bar() calls
    returned,           \* DupeCheck: value returned by find_duplicates, or None
    dev_pc,             \* position of collect_device_info
    device_found,       \* a partition of psutil.disk_partitions() is the device
    use_siegfried,      \* argument use_siegfried
    platform_bound,     \* the global name "platform" is bound in the module
    scan_exists,        \* os.path.exists(scan_path)
    os_name,            \* platform.system().lower()
    binary,             \* the Siegfried binary: "ok" | "missing" | "not_executable"
    sf_result,          \* what running Siegfried does:
                        \*   "ok" | "nonzero" | "unparsable" | "raises"
    tree_exts,          \* the files of scan_path in os.walk order: their extensions
    count,              \* collect_device_info: count
    sf_file_paths,      \* collect_device_info: file_paths (Siegfried branch)
    file_types,         \* collect_device_info: file_types
    temp_exists,        \* the NamedTemporaryFile of the call is on disk
    device_info,        \* collect_device_info: device_info
    exp_pc,             \* position of export_device
    selected_keys,      \* export_device: selected_keys
    file_columns,       \* the columns of the spreadsheet chosen for the export
    column_names,       \* export_device: column_names
    col_docs,           \* export_device: the columns of col_docs, in order
    score,              \* key_doc.similarity(col_doc), per key and column
    exp_pos,            \* number of selected keys handled by the loop
    export_data,        \* export_device: export_data
    matched_scores,     \* export_device: matched_scores
    new_row             \* export_device: new_row

vars == <<content, fstatus, directory, in_subdir, sub_listable, pc,
          file_paths, total_files, submitted,
          task, outcome, processed, hashes, duplicates, result_all_hashes,
          progress_emitted, finished_emitted, delivered, consumed,
          btn_find_enabled, duplicates_only, all_file_hashes, status_message,
          bar, returned,
          dev_pc, device_found, use_siegfried, platform_bound, scan_exists,
          os_name, binary, sf_result, tree_exts, count, sf_file_paths,
          file_types, temp_exists, device_info,
          exp_pc, selected_keys, file_columns, column_names, col_docs, score, exp_pos,
          export_data, matched_scores, new_row>>

fsVars     == <<content, fstatus, directory, in_subdir, sub_listable>>
poolVars   == <<task, outcome>>
aggVars    == <<processed, hashes, duplicates, progress_emitted, consumed>>
guiVars    == <<btn_find_enabled, duplicates_only, all_file_hashes, status_message>>
cliVars    == <<bar, returned>>
devIn      == <<device_found, use_siegfried, platform_bound, scan_exists,
                os_name, binary, sf_result, tree_exts>>
devVars    == <<dev_pc, devIn, count, sf_file_paths, file_types, temp_exists,
                device_info>>
expIn      == <<selected_keys, file_columns, score>>
expVars    == <<exp_pc, expIn, column_names, col_docs, exp_pos, export_data,
                matched_scores, new_row>>
toolVars   == <<devVars, expVars>>

\* Everything the two programs hold: the state of the thread, of the pool,
\* of the GUI and of the script.
progVars == <<pc, file_paths, total_files, submitted, poolVars, aggVars,
              result_all_hashes, finished_emitted, delivered, guiVars, cliVars>>
scanVars == <<fsVars, progVars>>

\* ------------------------------------------------------------ dictionaries
EmptyDict == [k \in {} |-> None]

Put(d, k, v) == [x \in (DOMAIN d) \cup {k} |-> IF x = k THEN v ELSE d[x]]

Get(d, k, default) == IF k \in DOMAIN d THEN d[k] ELSE default

\* Faulty variant of Truthy: only the empty string is rejected, as in
\* "if file_hash != ''", so the None of a failed file passes.
TruthyNotEmpty(x) == x # <<>>

\* Python truthiness of an Optional[str]: None and "" are falsy.
Truthy(x) == x # None /\ x # <<>>

Range(s) == {s[i] : i \in DOMAIN s}

Min(a, b) == IF a <= b THEN a ELSE b

\* ---------------------------------------------------------------- hashing
\* f.read(n) at offset pos: at most n bytes, empty at end of file.
Read(bytes, pos, n) == SubSeq(bytes, pos + 1, Min(pos + n, Len(bytes)))

\* Faulty variant of Update: the chunk is read but never fed to the hash,
\* so every file has the digest of the empty input.
UpdateSkipped(state, chunk) == state

\* file_hash.update(chunk) for the controlled fingerprint: bijective
\* base-3 numeration of the byte string read so far (injective on Contents).
RECURSIVE Update(_, _)
Update(state, chunk) ==
    IF chunk = <<>> THEN state
    ELSE Update(state * 3 + Head(chunk) + 1, Tail(chunk))

\* Faulty variant of HexDigest: leading zeros are stripped, so the digest of
\* the empty file is the empty string.
HexDigestStripped(state) == IF state = 0 THEN <<>> ELSE <<state \div 16, state % 16>>

\* file_hash.hexdigest(): a fixed-width, never empty, digit string.
HexDigest(state) == <<state \div 16, state % 16>>

\* while chunk := f.read(8192): file_hash.update(chunk)
RECURSIVE ReadLoop(_, _, _)
ReadLoop(bytes, pos, state) ==
    LET chunk == Read(bytes, pos, ChunkSize) IN
    IF chunk = <<>> THEN state
    ELSE ReadLoop(bytes, pos + Len(chunk), Update(state, chunk))

\* The body of the try block of md5: open() raises unless the file is
\* readable; otherwise (hexdigest, file_path) is returned.
Md5Try(st, bytes, file_path) ==
    IF st = "readable"
    THEN [raised |-> FALSE, value |-> <<HexDigest(ReadLoop(bytes, 0, 0)), file_path>>]
    ELSE [raised |-> TRUE, value |-> <<None, file_path>>]

\* Faulty variant of Md5: no except clause, the exception leaves md5.
Md5Unguarded(st, bytes, file_path) == Md5Try(st, bytes, file_path)

\* md5 as a whole: "except Exception: return None, file_path".
Md5(st, bytes, file_path) ==
    LET r == Md5Try(st, bytes, file_path) IN
    IF r.raised THEN [raised |-> FALSE, value |-> <<None, file_path>>] ELSE r

NoOutcome == [raised |-> FALSE, value |-> <<None, 0>>]

\* Faulty variant of Aggregate: the group of a fingerprint seen for the
\* second time is opened with the new path alone.
AggregateDropFirst(h, d, file_hash, file_path) ==
    IF Truthy(file_hash)
    THEN IF file_hash \in DOMAIN h
         THEN IF file_hash \in DOMAIN d
              THEN [hashes |-> h,
                    duplicates |-> Put(d, file_hash, Append(d[file_hash], file_path))]
              ELSE [hashes |-> h, duplicates |-> Put(d, file_hash, <<file_path>>)]
         ELSE [hashes |-> Put(h, file_hash, file_path), duplicates |-> d]
    ELSE [hashes |-> h, duplicates |-> d]

\* Faulty variant of Aggregate: the first path of a fingerprint is entered
\* in duplicates as well as in hashes.
AggregateEager(h, d, file_hash, file_path) ==
    IF Truthy(file_hash)
    THEN IF file_hash \in DOMAIN h
         THEN [hashes |-> h, duplicates |-> Put(d, file_hash, Append(d[file_hash], file_path))]
         ELSE [hashes |-> Put(h, file_hash, file_path),
               duplicates |-> Put(d, file_hash, <<file_path>>)]
    ELSE [hashes |-> h, duplicates |-> d]

\* Faulty variant of Aggregate: a further path of a fingerprint is put in
\* front of its group instead of behind it.
AggregatePrepend(h, d, file_hash, file_path) ==
    IF Truthy(file_hash)
    THEN IF file_hash \in DOMAIN h
         THEN IF file_hash \in DOMAIN d
              THEN [hashes |-> h, duplicates |-> Put(d, file_hash, <<file_path>> \o d[file_hash])]
              ELSE [hashes |-> h, duplicates |-> Put(d, file_hash, <<file_path, h[file_hash]>>)]
         ELSE [hashes |-> Put(h, file_hash, file_path), duplicates |-> d]
    ELSE [hashes |-> h, duplicates |-> d]

\* ------------------------------------------------------------ aggregation
\* Lines 796-803 of run: the update of (hashes, duplicates) for one result.
Aggregate(h, d, file_hash, file_path) ==
    IF Truthy(file_hash)
    THEN IF file_hash \in DOMAIN h
         THEN IF file_hash \in DOMAIN d
              THEN [hashes |-> h, duplicates |-> Put(d, file_hash, Append(d[file_hash], file_path))]
              ELSE [hashes |-> h, duplicates |-> Put(d, file_hash, <<h[file_hash], file_path>>)]
         ELSE [hashes |-> Put(h, file_hash, file_path), duplicates |-> d]
    ELSE [hashes |-> h, duplicates |-> d]

\* Faulty variant of Percent: the share of the files still to be processed.
PercentRemaining(n, total) == ((total - n) * 100) \div total

\* Faulty variant of Percent: the value before "processed += 1".
PercentBeforeIncrement(n, total) == ((n - 1) * 100) \div total

\* int((processed / total_files) * 100); the float expression equals the
\* integer quotient for every total_files the model reaches.
Percent(n, total) == (n * 100) \div total

\* The directory holding p can be listed.  The root can; the subdirectory
\* may raise an OSError in os.scandir.
Listable(p) == in_subdir[p] => sub_listable

\* Faulty variant of Walk: the files of a directory whose listing failed
\* are yielded all the same.
RECURSIVE WalkThroughErrors(_, _)
WalkThroughErrors(st, p) ==
    IF p > MaxFiles THEN <<>>
    ELSE IF st[p] # "absent" THEN <<p>> \o WalkThroughErrors(st, p + 1)
         ELSE WalkThroughErrors(st, p + 1)

\* os.walk(self.directory): the files present, in listing order (the files
\* of the root, then those of the subdirectory).  With onerror left at None
\* a directory whose listing fails yields nothing and the walk goes on.
RECURSIVE Walk(_, _)
Walk(st, p) ==
    IF p > MaxFiles THEN <<>>
    ELSE IF st[p] # "absent" /\ Listable(p) THEN <<p>> \o Walk(st, p + 1)
         ELSE Walk(st, p + 1)

\* ------------------------------------------------------------------- Init
\* collect_device_info has not been called.
DevIdle ==
    /\ dev_pc = "idle"
    /\ device_found = FALSE
    /\ use_siegfried = FALSE
    /\ platform_bound = FALSE
    /\ scan_exists = FALSE
    /\ os_name = "linux"
    /\ binary = "ok"
    /\ sf_result = "ok"
    /\ tree_exts = <<>>
    /\ count = 0
    /\ sf_file_paths = <<>>
    /\ file_types = EmptyDict
    /\ temp_exists = FALSE
    /\ device_info = EmptyDict

\* export_device has not been called.
ExpIdle ==
    /\ exp_pc = "idle"
    /\ selected_keys = <<>>
    /\ file_columns = <<>>
    /\ column_names = <<>>
    /\ col_docs = <<>>
    /\ score = EmptyDict
    /\ exp_pos = 0
    /\ export_data = EmptyDict
    /\ matched_scores = EmptyDict
    /\ new_row = EmptyDict

ThreadFresh ==
    /\ file_paths = <<>>
    /\ total_files = 0
    /\ submitted = 0
    /\ task = [p \in Paths |-> "none"]
    /\ outcome = [p \in Paths |-> NoOutcome]
    /\ processed = 0
    /\ hashes = EmptyDict
    /\ duplicates = EmptyDict
    /\ result_all_hashes = EmptyDict
    /\ progress_emitted = <<>>
    /\ finished_emitted = <<>>
    /\ delivered = 0
    /\ consumed = <<>>

Tree ==
    \E n \in 0..MaxFiles :
        /\ fstatus = [p \in Paths |-> IF p <= n THEN "readable" ELSE "absent"]
        /\ content \in [Paths -> Contents]
        /\ \A p \in Paths : p > n => content[p] = <<>>
        /\ directory \in {"dir", "file", "missing"}
        /\ directory # "dir" => n = 0
        /\ in_subdir = [p \in Paths |-> FALSE]
        /\ sub_listable = TRUE

Init ==
    /\ Tree
    /\ pc = "idle"
    /\ ThreadFresh
    /\ btn_find_enabled = TRUE
    /\ duplicates_only = EmptyDict
    /\ all_file_hashes = EmptyDict
    /\ status_message = ""
    /\ bar = 0
    /\ returned = None
    /\ DevIdle
    /\ ExpIdle

\* ------------------------------------------------------------ environment
\* The tree may change while a scan runs.  The scan observes a file's status
\* at two moments only: when os.walk lists the directory and when md5 opens
\* the file.  A change is therefore modelled right before one of the two:
\* after the thread has started and before os.walk, or while the task of the
\* file is running and has not opened the file yet.

\* A file loses its read permission: os.walk still lists it, open() raises.
MakeUnreadable(p) ==
    /\ pc \in {"walk", "dc_walk"}
    /\ fstatus[p] = "readable"
    /\ fstatus' = [fstatus EXCEPT ![p] = "unreadable"]
    /\ UNCHANGED <<toolVars, content, directory, in_subdir, sub_listable, pc,
                   file_paths, total_files, submitted,
                   poolVars, aggVars, result_all_hashes, finished_emitted,
                   delivered, guiVars, cliVars>>

\* A file is removed from the tree: before os.walk (it is not enumerated) or
\* between enumeration and hashing (open() raises FileNotFoundError).
RemoveFile(p) ==
    /\ pc \in {"walk", "dc_walk"} \/ task[p] = "running"
    /\ fstatus[p] = "readable"
    /\ fstatus' = [fstatus EXCEPT ![p] = "absent"]
    /\ UNCHANGED <<toolVars, content, directory, in_subdir, sub_listable, pc,
                   file_paths, total_files, submitted,
                   poolVars, aggVars, result_all_hashes, finished_emitted,
                   delivered, guiVars, cliVars>>

\* ------------------------------------------------------------ thread pool
Running == {p \in Paths : task[p] = "running"}

\* Faulty variant of WorkerStart: a thread per task, no pool limit.
WorkerStartUnbounded(p) ==
    /\ task[p] = "queued"
    /\ task' = [task EXCEPT ![p] = "running"]
    /\ UNCHANGED <<toolVars, fsVars, pc, file_paths, total_files, submitted, outcome,
                   aggVars, result_all_hashes, finished_emitted, delivered,
                   guiVars, cliVars>>

\* The queue of the executor is FIFO: the oldest submitted task starts when
\* a pool thread is free.
WorkerStart(p) ==
    /\ task[p] = "queued"
    /\ \A q \in Paths : task[q] = "queued" => p <= q
    /\ Cardinality(Running) < PoolSize
    /\ task' = [task EXCEPT ![p] = "running"]
    /\ UNCHANGED <<toolVars, fsVars, pc, file_paths, total_files, submitted, outcome,
                   aggVars, result_all_hashes, finished_emitted, delivered,
                   guiVars, cliVars>>

\* Faulty variant of WorkerFinish: the pool thread enters its result in the
\* shared hashes and duplicates itself.
WorkerFinishAggregating(p) ==
    /\ pc \in {"submit", "loop"}
    /\ task[p] = "running"
    /\ task' = [task EXCEPT ![p] = "done"]
    /\ LET r == Md5(fstatus[p], content[p], p)
           a == Aggregate(hashes, duplicates, r.value[1], r.value[2]) IN
            /\ outcome' = [outcome EXCEPT ![p] = r]
            /\ hashes' = a.hashes
            /\ duplicates' = a.duplicates
    /\ UNCHANGED <<toolVars, fsVars, pc, file_paths, total_files, submitted, processed,
                   progress_emitted, consumed, result_all_hashes,
                   finished_emitted, delivered, guiVars, cliVars>>

\* Faulty variant of WorkerFinish: md5 opens the file with mode "wb", as
\* copy_file opens its destination, which truncates the file.
WorkerFinishWriting(p) ==
    /\ pc \in {"submit", "loop"}
    /\ task[p] = "running"
    /\ task' = [task EXCEPT ![p] = "done"]
    /\ content' = [content EXCEPT ![p] = <<>>]
    /\ outcome' = [outcome EXCEPT ![p] = Md5(fstatus[p], <<>>, p)]
    /\ UNCHANGED <<toolVars, fstatus, directory, in_subdir, sub_listable, pc, file_paths,
                   total_files, submitted, aggVars, result_all_hashes,
                   finished_emitted, delivered, guiVars, cliVars>>

\* A pool thread runs md5(file_path) to its end; the future holds the result.
WorkerFinish(p) ==
    /\ pc \in {"submit", "loop"}
    /\ task[p] = "running"
    /\ task' = [task EXCEPT ![p] = "done"]
    /\ outcome' = [outcome EXCEPT ![p] = Md5(fstatus[p], content[p], p)]
    /\ UNCHANGED <<toolVars, fsVars, pc, file_paths, total_files, submitted,
                   aggVars, result_all_hashes, finished_emitted, delivered,
                   guiVars, cliVars>>

\* ----------------------------------------------- DuplicateFinderThread.run
\* Faulty variant of Enumerate: every file is submitted as soon as os.walk
\* lists it, inside the enumeration loop.
EnumerateSubmitting ==
    /\ pc = "walk"
    /\ file_paths' = (IF directory = "dir" THEN Walk(fstatus, 1) ELSE <<>>)
    /\ total_files' = Len(file_paths')
    /\ submitted' = Len(file_paths')
    /\ task' = [p \in Paths |-> IF fstatus[p] # "absent" /\ directory = "dir"
                                THEN "queued" ELSE task[p]]
    /\ hashes' = EmptyDict
    /\ duplicates' = EmptyDict
    /\ pc' = "check"
    /\ UNCHANGED <<toolVars, fsVars, outcome, processed, progress_emitted,
                   consumed, result_all_hashes, finished_emitted, delivered,
                   guiVars, cliVars>>

\* Lines 775-784: local variables, os.walk, total_files.
Enumerate ==
    /\ pc = "walk"
    /\ file_paths' = (IF directory = "dir" THEN Walk(fstatus, 1) ELSE <<>>)
    /\ total_files' = Len(file_paths')
    /\ hashes' = EmptyDict
    /\ duplicates' = EmptyDict
    /\ pc' = "check"
    /\ UNCHANGED <<toolVars, fsVars, submitted, poolVars, processed, progress_emitted,
                   consumed, result_all_hashes, finished_emitted, delivered,
                   guiVars, cliVars>>

\* Faulty variant of EmitEmpty: "return" without "self.finished.emit({})".
EmitEmptySilent ==
    /\ pc = "check"
    /\ total_files = 0
    /\ pc' = "done"
    /\ UNCHANGED <<toolVars, fsVars, file_paths, total_files, submitted, poolVars,
                   aggVars, result_all_hashes, finished_emitted, delivered,
                   guiVars, cliVars>>

\* Lines 785-787: nothing to hash.
EmitEmpty ==
    /\ pc = "check"
    /\ total_files = 0
    /\ finished_emitted' = Append(finished_emitted, EmptyDict)
    /\ pc' = "done"
    /\ UNCHANGED <<toolVars, fsVars, file_paths, total_files, submitted, poolVars,
                   aggVars, result_all_hashes, delivered, guiVars, cliVars>>

\* Line 789: the executor is created.
EnterPool ==
    /\ pc = "check"
    /\ total_files # 0
    /\ pc' = "submit"
    /\ UNCHANGED <<toolVars, fsVars, file_paths, total_files, submitted, poolVars,
                   aggVars, result_all_hashes, finished_emitted, delivered,
                   guiVars, cliVars>>

\* Line 790: executor.submit(self.md5, fp) for the next fp of file_paths.
Submit ==
    /\ pc = "submit"
    /\ submitted < Len(file_paths)
    /\ submitted' = submitted + 1
    /\ task' = [task EXCEPT ![file_paths[submitted + 1]] = "queued"]
    /\ UNCHANGED <<toolVars, fsVars, pc, file_paths, total_files, outcome, aggVars,
                   result_all_hashes, finished_emitted, delivered, guiVars,
                   cliVars>>

\* Line 791: processed = 0, the as_completed loop begins.
BeginLoop ==
    /\ pc = "submit"
    /\ submitted = Len(file_paths)
    /\ processed' = 0
    /\ pc' = "loop"
    /\ UNCHANGED <<toolVars, fsVars, file_paths, total_files, submitted, poolVars,
                   hashes, duplicates, progress_emitted, consumed,
                   result_all_hashes, finished_emitted, delivered, guiVars,
                   cliVars>>

\* Faulty variant of Consume: a failed file is submitted again.
ConsumeRetry(p) ==
    /\ pc = "loop"
    /\ task[p] = "done"
    /\ IF Truthy(outcome[p].value[1])
       THEN LET a == Aggregate(hashes, duplicates, outcome[p].value[1], outcome[p].value[2]) IN
            /\ task' = [task EXCEPT ![p] = "consumed"]
            /\ consumed' = Append(consumed, p)
            /\ processed' = processed + 1
            /\ progress_emitted' = Append(progress_emitted, Percent(processed', total_files))
            /\ hashes' = a.hashes
            /\ duplicates' = a.duplicates
       ELSE /\ task' = [task EXCEPT ![p] = "queued"]
            /\ UNCHANGED aggVars
    /\ UNCHANGED <<toolVars, fsVars, pc, file_paths, total_files, submitted, outcome,
                   result_all_hashes, finished_emitted, delivered, guiVars,
                   cliVars>>

\* Faulty variant of Consume: the progress emission sits inside
\* "if file_hash:", so a failed file emits nothing.
ConsumeEmitOnSuccess(p) ==
    /\ pc = "loop"
    /\ task[p] = "done"
    /\ task' = [task EXCEPT ![p] = "consumed"]
    /\ consumed' = Append(consumed, p)
    /\ processed' = processed + 1
    /\ progress_emitted' = (IF Truthy(outcome[p].value[1])
                            THEN Append(progress_emitted, Percent(processed', total_files))
                            ELSE progress_emitted)
    /\ LET a == Aggregate(hashes, duplicates, outcome[p].value[1], outcome[p].value[2]) IN
            /\ hashes' = a.hashes
            /\ duplicates' = a.duplicates
    /\ UNCHANGED <<toolVars, fsVars, pc, file_paths, total_files, submitted, outcome,
                   result_all_hashes, finished_emitted, delivered, guiVars,
                   cliVars>>

\* Lines 792-803: one iteration of the as_completed loop, for a finished
\* future. future.result() re-raises what the task raised, which ends run.
Consume(p) ==
    /\ pc = "loop"
    /\ task[p] = "done"
    /\ task' = [task EXCEPT ![p] = "consumed"]
    /\ consumed' = Append(consumed, p)
    /\ processed' = processed + 1
    /\ progress_emitted' = Append(progress_emitted, Percent(processed', total_files))
    /\ IF outcome[p].raised
       THEN /\ pc' = "crashed"
            /\ UNCHANGED <<hashes, duplicates>>
       ELSE LET a == Aggregate(hashes, duplicates, outcome[p].value[1], outcome[p].value[2]) IN
            /\ hashes' = a.hashes
            /\ duplicates' = a.duplicates
            /\ pc' = pc
    /\ UNCHANGED <<toolVars, fsVars, file_paths, total_files, submitted, outcome,
                   result_all_hashes, finished_emitted, delivered, guiVars,
                   cliVars>>

\* Faulty variant of AllConsumed: the loop is left after the first result.
FirstConsumed == \E i \in 1..Len(file_paths) : task[file_paths[i]] = "consumed"

\* The as_completed loop is exhausted: every future was yielded.
AllConsumed == \A i \in 1..Len(file_paths) : task[file_paths[i]] = "consumed"

\* Lines 805-806, after the executor has shut down.
StoreAllHashes ==
    /\ pc = "loop"
    /\ AllConsumed
    /\ result_all_hashes' = hashes
    /\ pc' = "emit"
    /\ UNCHANGED <<toolVars, fsVars, file_paths, total_files, submitted, poolVars,
                   aggVars, finished_emitted, delivered, guiVars, cliVars>>

\* Line 808.
EmitFinished ==
    /\ pc = "emit"
    /\ finished_emitted' = Append(finished_emitted, duplicates)
    /\ pc' = "done"
    /\ UNCHANGED <<toolVars, fsVars, file_paths, total_files, submitted, poolVars,
                   aggVars, result_all_hashes, delivered, guiVars, cliVars>>

\* --------------------------------------------------------- DuplicateFinder
\* find_duplicates, lines 894-897: the directory does not exist.
FindDuplicatesInvalid ==
    /\ pc = "idle"
    /\ btn_find_enabled
    /\ directory = "missing"
    /\ status_message' = "Invalid directory selected."
    /\ UNCHANGED <<toolVars, fsVars, pc, file_paths, total_files, submitted, poolVars,
                   aggVars, result_all_hashes, finished_emitted, delivered,
                   btn_find_enabled, duplicates_only, all_file_hashes, cliVars>>

\* Faulty variant of FindDuplicates: without "self.btn_find.setEnabled(False)".
FindDuplicatesKeepEnabled ==
    /\ pc = "idle"
    /\ btn_find_enabled
    /\ directory # "missing"
    /\ result_all_hashes' = EmptyDict
    /\ pc' = "walk"
    /\ UNCHANGED <<toolVars, fsVars, file_paths, total_files, submitted,
                   poolVars, aggVars, finished_emitted, delivered, guiVars,
                   cliVars>>

\* find_duplicates, lines 899-903: a new thread is created and started.
\* A behaviour holds one scan: the button is pressed while no thread exists.
FindDuplicates ==
    /\ pc = "idle"
    /\ btn_find_enabled
    /\ directory # "missing"
    /\ result_all_hashes' = EmptyDict
    /\ pc' = "walk"
    /\ btn_find_enabled' = FALSE
    /\ UNCHANGED <<toolVars, fsVars, file_paths, total_files, submitted, poolVars,
                   aggVars, finished_emitted, delivered, duplicates_only,
                   all_file_hashes, status_message, cliVars>>

\* Faulty variant of AllGroups: without "if hash_val not in
\* self.all_file_hashes" the singleton overwrites the duplicate group.
AllGroupsOverwrite(dups, all_hashes) ==
    [h \in (DOMAIN dups) \cup (DOMAIN all_hashes) |->
        IF h \in DOMAIN all_hashes THEN <<all_hashes[h]>> ELSE dups[h]]

\* Lines 913-922: the all-groups view built from the emitted duplicates and
\* the thread's _result_all_hashes.
AllGroups(dups, all_hashes) ==
    [h \in (DOMAIN dups) \cup (DOMAIN all_hashes) |->
        IF h \in DOMAIN dups THEN dups[h] ELSE <<all_hashes[h]>>]

\* Faulty variant of DisplayDuplicates: without "self.all_file_hashes = {}"
\* (line 914) the view is built on top of what the previous scan left.
DisplayDuplicatesKeeping ==
    /\ delivered < Len(finished_emitted)
    /\ delivered' = delivered + 1
    /\ duplicates_only' = finished_emitted[delivered + 1]
    /\ all_file_hashes' =
          LET dups == finished_emitted[delivered + 1]
              kept == [h \in (DOMAIN all_file_hashes) \cup (DOMAIN dups) |->
                          IF h \in DOMAIN dups THEN dups[h] ELSE all_file_hashes[h]]
          IN  [h \in (DOMAIN kept) \cup (DOMAIN result_all_hashes) |->
                  IF h \in DOMAIN kept THEN kept[h] ELSE <<result_all_hashes[h]>>]
    /\ btn_find_enabled' = TRUE
    /\ status_message' = "Duplicate search completed."
    /\ UNCHANGED <<toolVars, fsVars, pc, file_paths, total_files, submitted, poolVars,
                   aggVars, result_all_hashes, finished_emitted, cliVars>>

\* Faulty variant of DisplayDuplicates: without "self.btn_find.setEnabled(True)".
DisplayDuplicatesDisabled ==
    /\ delivered < Len(finished_emitted)
    /\ delivered' = delivered + 1
    /\ duplicates_only' = finished_emitted[delivered + 1]
    /\ all_file_hashes' = AllGroups(finished_emitted[delivered + 1], result_all_hashes)
    /\ status_message' = "Duplicate search completed."
    /\ UNCHANGED <<toolVars, fsVars, pc, file_paths, total_files, submitted,
                   poolVars, aggVars, result_all_hashes, finished_emitted,
                   btn_find_enabled, cliVars>>

\* display_duplicates, the slot connected to the finished signal.
DisplayDuplicates ==
    /\ delivered < Len(finished_emitted)
    /\ delivered' = delivered + 1
    /\ duplicates_only' = finished_emitted[delivered + 1]
    /\ all_file_hashes' = AllGroups(finished_emitted[delivered + 1], result_all_hashes)
    /\ btn_find_enabled' = TRUE
    /\ status_message' = "Duplicate search completed."
    /\ UNCHANGED <<toolVars, fsVars, pc, file_paths, total_files, submitted, poolVars,
                   aggVars, result_all_hashes, finished_emitted, cliVars>>

\* ------------------------------------------------- DupeCheck.py (script)
\* md5 of DupeCheck.py, lines 19-29: the same read loop; the except branch
\* prints the error and returns (None, file_path).
DcMd5(st, bytes, file_path) ==
    IF st = "readable"
    THEN [raised |-> FALSE, value |-> <<HexDigest(ReadLoop(bytes, 0, 0)), file_path>>]
    ELSE [raised |-> FALSE, value |-> <<None, file_path>>]

\* Lines 60-64 of find_duplicates: the update of (hashes, duplicates).
DcAggregate(h, d, file_hash, file_path) ==
    IF Truthy(file_hash)
    THEN IF file_hash \in DOMAIN h
         THEN [hashes |-> h,
               duplicates |-> Put(d, file_hash, <<h[file_hash]>> \o Get(d, file_hash, <<>>))]
         ELSE [hashes |-> Put(h, file_hash, file_path), duplicates |-> d]
    ELSE [hashes |-> h, duplicates |-> d]

\* Lines 32-41: hashes, duplicates, os.walk.
DcEnumerate ==
    /\ pc = "dc_walk"
    /\ file_paths' = Walk(fstatus, 1)
    /\ total_files' = Len(file_paths')
    /\ hashes' = EmptyDict
    /\ duplicates' = EmptyDict
    /\ pc' = "dc_submit"
    /\ UNCHANGED <<toolVars, fsVars, submitted, poolVars, processed, progress_emitted,
                   consumed, result_all_hashes, finished_emitted, delivered,
                   guiVars, cliVars>>

\* Line 46: executor.submit(md5, file_path) for the next path.
DcSubmit ==
    /\ pc = "dc_submit"
    /\ submitted < Len(file_paths)
    /\ submitted' = submitted + 1
    /\ task' = [task EXCEPT ![file_paths[submitted + 1]] = "queued"]
    /\ UNCHANGED <<toolVars, fsVars, pc, file_paths, total_files, outcome, aggVars,
                   result_all_hashes, finished_emitted, delivered, guiVars,
                   cliVars>>

\* Line 49: alive_bar(len(future_to_file)), the as_completed loop begins.
DcBeginLoop ==
    /\ pc = "dc_submit"
    /\ submitted = Len(file_paths)
    /\ bar' = 0
    /\ pc' = "dc_loop"
    /\ UNCHANGED <<toolVars, fsVars, file_paths, total_files, submitted, poolVars,
                   aggVars, result_all_hashes, finished_emitted, delivered,
                   guiVars, returned>>

\* A pool thread runs md5(file_path) of DupeCheck.py.
DcWorkerFinish(p) ==
    /\ pc \in {"dc_submit", "dc_loop"}
    /\ task[p] = "running"
    /\ task' = [task EXCEPT ![p] = "done"]
    /\ outcome' = [outcome EXCEPT ![p] = DcMd5(fstatus[p], content[p], p)]
    /\ UNCHANGED <<toolVars, fsVars, pc, file_paths, total_files, submitted,
                   aggVars, result_all_hashes, finished_emitted, delivered,
                   guiVars, cliVars>>

\* Lines 51-64: one iteration of the as_completed loop.
DcConsume(p) ==
    /\ pc = "dc_loop"
    /\ task[p] = "done"
    /\ task' = [task EXCEPT ![p] = "consumed"]
    /\ consumed' = Append(consumed, p)
    /\ bar' = bar + 1
    /\ LET a == DcAggregate(hashes, duplicates, outcome[p].value[1], outcome[p].value[2]) IN
            /\ hashes' = a.hashes
            /\ duplicates' = a.duplicates
    /\ UNCHANGED <<toolVars, fsVars, pc, file_paths, total_files, submitted, outcome,
                   processed, progress_emitted, result_all_hashes,
                   finished_emitted, delivered, guiVars, returned>>

\* Line 66: return duplicates.
DcReturn ==
    /\ pc = "dc_loop"
    /\ AllConsumed
    /\ returned' = duplicates
    /\ pc' = "dc_done"
    /\ UNCHANGED <<toolVars, fsVars, file_paths, total_files, submitted, poolVars,
                   aggVars, result_all_hashes, finished_emitted, delivered,
                   guiVars, bar>>

\* Lines 69-77: find_duplicates(mount_point) is called for a mount point
\* that exists.
InitDupeCheck ==
    /\ Tree
    /\ directory = "dir"
    /\ pc = "dc_walk"
    /\ ThreadFresh
    /\ btn_find_enabled = TRUE
    /\ duplicates_only = EmptyDict
    /\ all_file_hashes = EmptyDict
    /\ status_message = ""
    /\ bar = 0
    /\ returned = None
    /\ DevIdle
    /\ ExpIdle

NextDupeCheck ==
    \/ \E p \in Paths : MakeUnreadable(p)
    \/ \E p \in Paths : RemoveFile(p)
    \/ \E p \in Paths : WorkerStart(p)
    \/ \E p \in Paths : DcWorkerFinish(p)
    \/ DcEnumerate
    \/ DcSubmit
    \/ DcBeginLoop
    \/ \E p \in Paths : DcConsume(p)
    \/ DcReturn

SpecDupeCheck == InitDupeCheck /\ [][NextDupeCheck]_vars

\* ------------------------------------------------------------------- Next
Next ==
    \/ \E p \in Paths : MakeUnreadable(p)
    \/ \E p \in Paths : RemoveFile(p)
    \/ \E p \in Paths : WorkerStart(p)
    \/ \E p \in Paths : WorkerFinish(p)
    \/ Enumerate
    \/ EmitEmpty
    \/ EnterPool
    \/ Submit
    \/ BeginLoop
    \/ \E p \in Paths : Consume(p)
    \/ StoreAllHashes
    \/ EmitFinished
    \/ FindDuplicatesInvalid
    \/ FindDuplicates
    \/ DisplayDuplicates

Spec == Init /\ [][Next]_vars

\* Both programs: the scan of the GUI and the call of DupeCheck.py.  Their
\* positions are disjoint, so a behaviour is a behaviour of one of the two.
InitBoth == Init \/ InitDupeCheck

NextBoth ==
    \/ \E p \in Paths : MakeUnreadable(p)
    \/ \E p \in Paths : RemoveFile(p)
    \/ \E p \in Paths : WorkerStart(p)
    \/ \E p \in Paths : WorkerFinish(p)
    \/ Enumerate
    \/ EmitEmpty
    \/ EnterPool
    \/ Submit
    \/ BeginLoop
    \/ \E p \in Paths : Consume(p)
    \/ StoreAllHashes
    \/ EmitFinished
    \/ FindDuplicatesInvalid
    \/ FindDuplicates
    \/ DisplayDuplicates
    \/ \E p \in Paths : DcWorkerFinish(p)
    \/ DcEnumerate
    \/ DcSubmit
    \/ DcBeginLoop
    \/ \E p \in Paths : DcConsume(p)
    \/ DcReturn

SpecBoth == InitBoth /\ [][NextBoth]_vars

\* find_duplicates, lines 899-903, pressed after an earlier scan: the new
\* DuplicateFinderThread replaces self.dupe_thread, with its own local
\* variables, its own _result_all_hashes and its own signals.  The button
\* can be pressed whenever it is enabled.
FindDuplicatesAgain ==
    /\ pc # "idle"
    /\ btn_find_enabled
    /\ directory # "missing"
    /\ file_paths' = <<>>
    /\ total_files' = 0
    /\ submitted' = 0
    /\ task' = [p \in Paths |-> "none"]
    /\ outcome' = [p \in Paths |-> NoOutcome]
    /\ processed' = 0
    /\ hashes' = EmptyDict
    /\ duplicates' = EmptyDict
    /\ result_all_hashes' = EmptyDict
    /\ progress_emitted' = <<>>
    /\ finished_emitted' = <<>>
    /\ delivered' = 0
    /\ consumed' = <<>>
    /\ pc' = "walk"
    /\ btn_find_enabled' = FALSE
    /\ UNCHANGED <<toolVars, fsVars, duplicates_only, all_file_hashes, status_message,
                   cliVars>>

\* The GUI over its lifetime: scan after scan of the same directory, whose
\* files may change between the scans.
NextRescan ==
    \/ \E p \in Paths : MakeUnreadable(p)
    \/ \E p \in Paths : RemoveFile(p)
    \/ \E p \in Paths : WorkerStart(p)
    \/ \E p \in Paths : WorkerFinish(p)
    \/ Enumerate
    \/ EmitEmpty
    \/ EnterPool
    \/ Submit
    \/ BeginLoop
    \/ \E p \in Paths : Consume(p)
    \/ StoreAllHashes
    \/ EmitFinished
    \/ FindDuplicatesInvalid
    \/ FindDuplicates
    \/ FindDuplicatesAgain
    \/ DisplayDuplicates

\* Of the files of the scanned directory, those after the first are copies
\* of one another.
InitRescan ==
    /\ Init
    /\ \A p, q \in Paths : (p > 1 /\ q > 1 /\ fstatus[p] = "readable"
                             /\ fstatus[q] = "readable") => content[p] = content[q]

SpecRescan == InitRescan /\ [][NextRescan]_vars

\* A root with one subdirectory: the first k files lie in the root, the
\* others in the subdirectory, which os.scandir may fail to list.  The files
\* are copies of one another.  Either program scans the tree.
InitTree ==
    /\ \E n \in 0..MaxFiles :
        /\ fstatus = [p \in Paths |-> IF p <= n THEN "readable" ELSE "absent"]
        /\ content = [p \in Paths |-> IF p <= n THEN <<0, 1>> ELSE <<>>]
        /\ directory \in {"dir", "file", "missing"}
        /\ directory # "dir" => n = 0
        /\ \E k \in 0..n : in_subdir = [p \in Paths |-> p > k /\ p <= n]
    /\ sub_listable \in BOOLEAN
    /\ pc \in {"idle", "dc_walk"}
    /\ pc = "dc_walk" => directory = "dir"
    /\ ThreadFresh
    /\ btn_find_enabled = TRUE
    /\ duplicates_only = EmptyDict
    /\ all_file_hashes = EmptyDict
    /\ status_message = ""
    /\ bar = 0
    /\ returned = None
    /\ DevIdle
    /\ ExpIdle

SpecTree == InitTree /\ [][NextBoth]_vars

\* ----------------------------- DeviceInfoCollector.collect_device_info
\* Extensions of the files under scan_path, as os.path.splitext gives them.
Exts == {"", ".TXT"}

\* str.lower on an extension.
Lower(e) == IF e = ".TXT" THEN ".txt" ELSE e

\* Lines 190-192: the key of file_types for a file of extension e.
TypeKey(e) == IF Lower(e) = "" THEN "no_extension" ELSE Lower(e)

\* Lines 56-60: the entries every found device gets.
BasicInfo ==
    [k \in {"Mountpoint", "Filesystem Type", "Mount Options", "Device Type"} |->
        "partition"]

\* Lines 52-55 and 205: the partitions are searched for the device; lines
\* 56-109: the entries that do not depend on the format scan.
CollectLookup ==
    /\ dev_pc = "call"
    /\ IF device_found
       THEN /\ device_info' = BasicInfo
            /\ dev_pc' = "formats"
       ELSE /\ dev_pc' = "return_none"
            /\ UNCHANGED device_info
    /\ UNCHANGED <<scanVars, expVars, devIn, count, sf_file_paths, file_types,
                   temp_exists>>

\* Lines 112-114 and 180-185: the kind of format scan is chosen.
CollectFormats ==
    /\ dev_pc = "formats"
    /\ dev_pc' = (IF ~scan_exists THEN "return_dict"
                  ELSE IF use_siegfried THEN "sf_os" ELSE "lw_walk")
    /\ count' = 0
    /\ file_types' = EmptyDict
    /\ UNCHANGED <<scanVars, expVars, devIn, sf_file_paths, temp_exists,
                   device_info>>

\* Lines 116-123: platform.system().  The module never imports platform
\* (lines 1-22): unless the name is bound from outside, evaluating it raises
\* NameError, outside every try block.
SfPlatform ==
    /\ dev_pc = "sf_os"
    /\ IF ~platform_bound
       THEN /\ dev_pc' = "raised"
            /\ UNCHANGED device_info
       ELSE IF os_name \notin {"windows", "linux", "darwin"}
            THEN /\ device_info' = Put(device_info, "Siegfried Status", "Unsupported OS")
                 /\ dev_pc' = "return_dict"
            ELSE /\ dev_pc' = "sf_binary"
                 /\ UNCHANGED device_info
    /\ UNCHANGED <<scanVars, expVars, devIn, count, sf_file_paths, file_types,
                   temp_exists>>

\* Lines 125-137: the binary is looked up; the walk is prepared.
SfBinary ==
    /\ dev_pc = "sf_binary"
    /\ IF binary # "ok"
       THEN /\ device_info' = Put(device_info, "Siegfried Status", binary)
            /\ dev_pc' = "return_dict"
       ELSE /\ dev_pc' = "sf_walk"
            /\ UNCHANGED device_info
    /\ count' = 0
    /\ sf_file_paths' = <<>>
    /\ UNCHANGED <<scanVars, expVars, devIn, file_types, temp_exists>>

\* Lines 138-146: one file of the walk; the loops are left once count has
\* reached max_files.
SfVisit ==
    /\ dev_pc = "sf_walk"
    /\ count < Len(tree_exts)
    /\ count < max_files
    /\ count' = count + 1
    /\ sf_file_paths' = Append(sf_file_paths, count + 1)
    /\ UNCHANGED <<scanVars, expVars, dev_pc, devIn, file_types, temp_exists,
                   device_info>>

\* Lines 148-151 and 176-177: the walk is over; the list of paths is written
\* to a temporary file created with delete=False.
SfWriteList ==
    /\ dev_pc = "sf_walk"
    /\ count = Len(tree_exts) \/ count >= max_files
    /\ IF sf_file_paths # <<>>
       THEN /\ temp_exists' = TRUE
            /\ dev_pc' = "sf_run"
            /\ UNCHANGED device_info
       ELSE /\ device_info' = Put(device_info, "Siegfried Status", "No files found to scan")
            /\ dev_pc' = "return_dict"
            /\ UNCHANGED temp_exists
    /\ UNCHANGED <<scanVars, expVars, devIn, count, sf_file_paths, file_types>>

\* Lines 153-158 and 178-179: subprocess.run.  When it raises, the handler
\* of line 178 records the exception and the function returns at line 204;
\* a non-zero return code is recorded, the temporary file removed.
SfRun ==
    /\ dev_pc = "sf_run"
    /\ IF sf_result = "raises"
       THEN /\ device_info' = Put(device_info, "Siegfried Exception", "OSError")
            /\ dev_pc' = "return_dict"
            /\ UNCHANGED temp_exists
       ELSE IF sf_result = "nonzero"
            THEN /\ device_info' = Put(device_info, "Siegfried Error", "Command failed")
                 /\ temp_exists' = FALSE
                 /\ dev_pc' = "return_dict"
            ELSE /\ dev_pc' = "sf_parse"
                 /\ UNCHANGED <<device_info, temp_exists>>
    /\ UNCHANGED <<scanVars, expVars, devIn, count, sf_file_paths, file_types>>

\* Lines 160-175 and 178-179: json.loads and the count of formats.  When the
\* output cannot be parsed, json.loads raises before line 171 is reached.
SfParse ==
    /\ dev_pc = "sf_parse"
    /\ IF sf_result = "unparsable"
       THEN /\ device_info' = Put(device_info, "Siegfried Exception", "JSONDecodeError")
            /\ UNCHANGED temp_exists
       ELSE /\ device_info' = Put(device_info, "Scanned Files", Len(sf_file_paths))
            /\ temp_exists' = FALSE
    /\ dev_pc' = "return_dict"
    /\ UNCHANGED <<scanVars, expVars, devIn, count, sf_file_paths, file_types>>

\* Faulty variant of LwVisit: without the two "if count >= max_files: break".
LwVisitUnlimited ==
    /\ dev_pc = "lw_walk"
    /\ count < Len(tree_exts)
    /\ count' = count + 1
    /\ file_types' = Put(file_types, TypeKey(tree_exts[count + 1]),
                         Get(file_types, TypeKey(tree_exts[count + 1]), 0) + 1)
    /\ UNCHANGED <<scanVars, expVars, dev_pc, devIn, sf_file_paths, temp_exists,
                   device_info>>

\* Lines 187-198: one file of the lightweight walk.
LwVisit ==
    /\ dev_pc = "lw_walk"
    /\ count < Len(tree_exts)
    /\ count < max_files
    /\ count' = count + 1
    /\ file_types' = Put(file_types, TypeKey(tree_exts[count + 1]),
                         Get(file_types, TypeKey(tree_exts[count + 1]), 0) + 1)
    /\ UNCHANGED <<scanVars, expVars, dev_pc, devIn, sf_file_paths, temp_exists,
                   device_info>>

\* Lines 200-201 and 204: the walk is over; the two entries are stored.
LwStore ==
    /\ dev_pc = "lw_walk"
    /\ count = Len(tree_exts) \/ count >= max_files
    /\ device_info' = Put(Put(device_info, "Scanned Files", count),
                          "File Types", file_types)
    /\ dev_pc' = "return_dict"
    /\ UNCHANGED <<scanVars, expVars, devIn, count, sf_file_paths, file_types,
                   temp_exists>>

\* A call collect_device_info(device, use_siegfried, directory): the
\* arguments and what the call finds on the machine.
InitDevice ==
    /\ Tree
    /\ directory = "missing"
    /\ pc = "idle"
    /\ ThreadFresh
    /\ btn_find_enabled = TRUE
    /\ duplicates_only = EmptyDict
    /\ all_file_hashes = EmptyDict
    /\ status_message = ""
    /\ bar = 0
    /\ returned = None
    /\ ExpIdle
    /\ dev_pc = "call"
    /\ device_found \in BOOLEAN
    /\ use_siegfried \in BOOLEAN
    /\ platform_bound \in BOOLEAN
    /\ scan_exists \in BOOLEAN
    /\ os_name \in {"linux", "freebsd"}
    /\ binary \in {"ok", "missing", "not_executable"}
    /\ sf_result \in {"ok", "nonzero", "unparsable", "raises"}
    /\ tree_exts \in UNION {[1..n -> Exts] : n \in 0..(max_files + 2)}
    /\ count = 0
    /\ sf_file_paths = <<>>
    /\ file_types = EmptyDict
    /\ temp_exists = FALSE
    /\ device_info = EmptyDict

NextDevice ==
    \/ CollectLookup
    \/ CollectFormats
    \/ SfPlatform
    \/ SfBinary
    \/ SfVisit
    \/ SfWriteList
    \/ SfRun
    \/ SfParse
    \/ LwVisit
    \/ LwStore

SpecDevice == InitDevice /\ [][NextDevice]_vars

\* ------------------------------------------------- Exporter.export_device
\* Line 654: the dictionary collect_device_info returned, here two of its
\* entries.
info == ("Mountpoint" :> "/mnt/usb") @@ ("Device Type" :> "USB Drive")

\* Column names a spreadsheet may have: one that is no key of info and one
\* that is.
ColumnPool == {"Mount point", "Device Type"}

\* The value of a cell that export_data does not fill (line 718).
NoValue == "None"

\* Lines 699-706: the column of col_docs most similar to the key, the first
\* one among equals; no column when no similarity is positive.
RECURSIVE BestFrom(_, _, _)
BestFrom(key, i, best) ==
    IF i > Len(col_docs) THEN best
    ELSE IF score[key][col_docs[i]] > best.best_score
         THEN BestFrom(key, i + 1, [best_match |-> col_docs[i],
                                    best_score |-> score[key][col_docs[i]]])
         ELSE BestFrom(key, i + 1, best)

Best(key) == BestFrom(key, 1, [best_match |-> NoValue, best_score |-> 0])

\* Lines 663-694: the selection is read; with no key selected the function
\* returns; otherwise the spreadsheet is read and its columns are parsed.
ExportStart ==
    /\ exp_pc = "call"
    /\ IF selected_keys = <<>>
       THEN /\ exp_pc' = "return"
            /\ UNCHANGED <<column_names, col_docs>>
       ELSE /\ exp_pc' = "match"
            /\ column_names' = file_columns
            /\ col_docs' = file_columns
    /\ export_data' = EmptyDict
    /\ matched_scores' = EmptyDict
    /\ exp_pos' = 0
    /\ UNCHANGED <<scanVars, devVars, expIn, new_row>>

\* Lines 696-715: one iteration of the loop over selected_keys.
ExportKey ==
    /\ exp_pc = "match"
    /\ exp_pos < Len(selected_keys)
    /\ LET key == selected_keys[exp_pos + 1]
           value == info[key]
           b == Best(key)
       IN  IF b.best_match # NoValue
              /\ b.best_score >= Get(matched_scores, b.best_match, 0)
           THEN /\ export_data' = Put(export_data, b.best_match, value)
                /\ matched_scores' = Put(matched_scores, b.best_match, b.best_score)
                /\ UNCHANGED column_names
           ELSE /\ export_data' = Put(export_data, key, value)
                /\ column_names' = (IF key \in Range(column_names) THEN column_names
                                    ELSE Append(column_names, key))
                /\ UNCHANGED matched_scores
    /\ exp_pos' = exp_pos + 1
    /\ UNCHANGED <<scanVars, devVars, exp_pc, expIn, col_docs, new_row>>

\* Lines 718-726: the row is built from column_names and appended.
ExportRow ==
    /\ exp_pc = "match"
    /\ exp_pos = Len(selected_keys)
    /\ new_row' = [col \in Range(column_names) |-> Get(export_data, col, NoValue)]
    /\ exp_pc' = "exported"
    /\ UNCHANGED <<scanVars, devVars, expIn, column_names, col_docs, exp_pos,
                   export_data, matched_scores>>

\* A call of export_device: the keys ticked in the dialog (in the order of
\* info), the columns of the chosen spreadsheet, and the similarity of every
\* key to every column, on a scale of three levels of which 0 stands for no
\* similarity; a column named like the key is as similar as can be.
InitExport ==
    /\ Tree
    /\ directory = "missing"
    /\ pc = "idle"
    /\ ThreadFresh
    /\ btn_find_enabled = TRUE
    /\ duplicates_only = EmptyDict
    /\ all_file_hashes = EmptyDict
    /\ status_message = ""
    /\ bar = 0
    /\ returned = None
    /\ DevIdle
    /\ exp_pc = "call"
    /\ selected_keys \in {<<>>, <<"Mountpoint">>, <<"Device Type">>,
                          <<"Mountpoint", "Device Type">>}
    /\ file_columns \in {<<>>, <<"Mount point">>, <<"Device Type">>,
                         <<"Mount point", "Device Type">>,
                         <<"Device Type", "Mount point">>}
    /\ score \in [DOMAIN info -> [ColumnPool -> 0..2]]
    /\ \A k \in DOMAIN info : k \in ColumnPool => score[k][k] = 2
    /\ column_names = <<>>
    /\ col_docs = <<>>
    /\ exp_pos = 0
    /\ export_data = EmptyDict
    /\ matched_scores = EmptyDict
    /\ new_row = EmptyDict

NextExport ==
    \/ ExportStart
    \/ ExportKey
    \/ ExportRow

SpecExport == InitExport /\ [][NextExport]_vars

\* ------------------------------------------------------ fairness (threads)
\* The operating system schedules the thread running run and every pool
\* thread; a step of theirs that stays possible is eventually taken.  The
\* environment and the user are under no obligation.
Fairness ==
    /\ WF_vars(Enumerate)
    /\ WF_vars(EmitEmpty)
    /\ WF_vars(EnterPool)
    /\ WF_vars(Submit)
    /\ WF_vars(BeginLoop)
    /\ WF_vars(\E p \in Paths : WorkerStart(p))
    /\ WF_vars(\E p \in Paths : WorkerFinish(p))
    /\ WF_vars(\E p \in Paths : Consume(p))
    /\ WF_vars(StoreAllHashes)
    /\ WF_vars(EmitFinished)

FairSpec == Init /\ [][Next]_vars /\ Fairness

\* The GUI thread runs the Qt event loop: a finished signal that was emitted
\* is eventually handed to the slot display_duplicates.
FairGuiSpec == Init /\ [][Next]_vars /\ Fairness /\ WF_vars(DisplayDuplicates)

\* ------------------------------------------------------------- vocabulary
\* The fingerprint md5 returned for p (None when hashing failed).
Fingerprint(p) == outcome[p].value[1]

Hashed == {p \in Paths : task[p] \in {"done", "consumed"}}

\* Successfully hashed paths, and paths whose hashing failed.
Succeeded == {p \in Hashed : Fingerprint(p) # None}
Failed == {p \in Hashed : Fingerprint(p) = None}

Fingerprints == {Fingerprint(p) : p \in Succeeded}

PathsOf(h) == {p \in Succeeded : Fingerprint(p) = h}

NoRepeat(s) == Cardinality(Range(s)) = Len(s)

Emitted == Len(finished_emitted) > 0

Terminal == finished_emitted[1]

Displayed == delivered > 0

\* The successfully hashed paths of fingerprint h in the order in which the
\* aggregation loop consumed them; failed paths do not occur in it.
InOrder(h) ==
    LET Has(p) == p \in Succeeded /\ Fingerprint(p) = h IN SelectSeq(consumed, Has)

\* What a scan of the tree without the failed files yields when the
\* remaining results are consumed in the same order.
ExpectedDuplicates ==
    [h \in {g \in Fingerprints : Cardinality(PathsOf(g)) >= 2} |-> InOrder(h)]

ExpectedAllGroups == [h \in Fingerprints |-> InOrder(h)]

\* ------------------------------------------------------------------ claims

\* C1  Partition completeness: after run and display_duplicates the union
\* of the groups of all_file_hashes is exactly the set of successfully
\* hashed paths, no path is in two groups, no path is twice in one group.
PartitionCompleteness ==
    Displayed =>
        /\ UNION {Range(all_file_hashes[h]) : h \in DOMAIN all_file_hashes} = Succeeded
        /\ \A h1, h2 \in DOMAIN all_file_hashes :
              h1 # h2 => Range(all_file_hashes[h1]) \cap Range(all_file_hashes[h2]) = {}
        /\ \A h \in DOMAIN all_file_hashes : NoRepeat(all_file_hashes[h])

\* C1 witness: a displayed scan of a full tree with a duplicate group and
\* a singleton group.
PartitionWitness ==
    /\ Displayed
    /\ \E h \in DOMAIN all_file_hashes : Len(all_file_hashes[h]) >= 2
    /\ \E h \in DOMAIN all_file_hashes : Len(all_file_hashes[h]) = 1
    /\ total_files = MaxFiles

\* The groups of the result of run: the emitted duplicates, and one
\* singleton per fingerprint of _result_all_hashes that is no duplicate.
SameGroup(p, q) ==
    \/ \E h \in DOMAIN Terminal : {p, q} \subseteq Range(Terminal[h])
    \/ \E h \in DOMAIN result_all_hashes : {p, q} = {result_all_hashes[h]}

\* C2  Duplicate correctness: in the result of run two successfully hashed
\* files of identical content (empty files included) are in the same group,
\* and two files of differing content never are.
DuplicateCorrectness ==
    (Emitted /\ total_files > 0) =>
        \A p, q \in Succeeded :
            /\ content[p] = content[q] => SameGroup(p, q)
            /\ content[p] # content[q] => ~SameGroup(p, q)

\* C2 witness: two empty files grouped, next to a file of other content.
DuplicateWitness ==
    /\ Emitted
    /\ \E p, q, r \in Succeeded :
          /\ p # q
          /\ content[p] = <<>> /\ content[q] = <<>> /\ content[r] # <<>>
          /\ SameGroup(p, q)

\* C3  The emitted duplicates hold exactly the fingerprints of two or more
\* successfully hashed paths, each group of size >= 2; the all-groups view
\* of display_duplicates holds every fingerprint, the singletons included.
DuplicatesExact ==
    /\ Emitted =>
          /\ DOMAIN Terminal = {h \in Fingerprints : Cardinality(PathsOf(h)) >= 2}
          /\ \A h \in DOMAIN Terminal : Len(Terminal[h]) >= 2
    /\ Displayed =>
          /\ DOMAIN all_file_hashes = Fingerprints
          /\ duplicates_only = Terminal
          /\ \A h \in Fingerprints :
                Cardinality(PathsOf(h)) = 1 => Len(all_file_hashes[h]) = 1

\* C3 witness: a displayed result with a duplicate fingerprint and a
\* singleton fingerprint that only the all-groups view holds.
DuplicatesExactWitness ==
    /\ Displayed
    /\ DOMAIN duplicates_only # {}
    /\ DOMAIN all_file_hashes # DOMAIN duplicates_only

\* C4  DupeCheck.find_duplicates returns, for each fingerprint shared by
\* k >= 2 successfully hashed files, a group made of those k paths.
DcGroupsComplete ==
    pc = "dc_done" =>
        \A h \in Fingerprints :
            Cardinality(PathsOf(h)) >= 2 =>
                /\ h \in DOMAIN returned
                /\ Range(returned[h]) = PathsOf(h)
                /\ Len(returned[h]) = Cardinality(PathsOf(h))

\* C5  Error isolation: a file whose hashing failed ends run in no way but
\* the normal one, is in no group of the duplicates or of the all-groups
\* view, and the other files are grouped as if it were absent.
ErrorIsolation ==
    /\ pc # "crashed"
    /\ Emitted =>
          /\ Terminal = ExpectedDuplicates
          /\ \A h \in DOMAIN Terminal : Range(Terminal[h]) \cap Failed = {}
    /\ Displayed =>
          /\ all_file_hashes = ExpectedAllGroups
          /\ \A h \in DOMAIN all_file_hashes : Range(all_file_hashes[h]) \cap Failed = {}

\* C5 witness: a displayed scan in which one file failed and two others
\* were grouped.
ErrorIsolationWitness ==
    /\ Displayed
    /\ Failed # {}
    /\ DOMAIN duplicates_only # {}

\* C6  The terminal outcome tells how many files failed: a scan in which a
\* file failed is told apart from a scan of the tree lacking that file.
ErrorsReported ==
    (Displayed /\ Failed # {}) =>
        <<duplicates_only, all_file_hashes>> # <<ExpectedDuplicates, ExpectedAllGroups>>

\* C7  The finished signal is emitted exactly once per started scan, only
\* after every submitted task has completed and its result was consumed,
\* and no progress is emitted after it.
FinishedOnce ==
    /\ [](Len(finished_emitted) <= 1)
    /\ [](pc = "done" => Len(finished_emitted) = 1)
    /\ [](Emitted => /\ submitted = Len(file_paths)
                     /\ \A p \in Paths : task[p] \in {"none", "consumed"}
                     /\ Len(consumed) = total_files)
    /\ [][Emitted => /\ progress_emitted' = progress_emitted
                     /\ finished_emitted' = finished_emitted]_vars

\* C7 witness: the terminal result of a scan of a full tree, one file failed.
FinishedOnceWitness ==
    /\ pc = "done"
    /\ Len(finished_emitted) = 1
    /\ Len(consumed) = MaxFiles
    /\ Failed # {}

\* C8  Termination under partial failure: whatever files fail to be read,
\* run does not crash and a started scan emits its terminal result.
Termination ==
    /\ [](pc # "crashed")
    /\ (pc = "walk") ~> (pc = "done" /\ Len(finished_emitted) = 1)

\* C8 witness: a finished scan in which a file was removed between
\* enumeration and hashing and another was unreadable from the start.
TerminationWitness ==
    /\ pc = "done"
    /\ Emitted
    /\ \E p, q \in Failed : fstatus[p] = "absent" /\ fstatus[q] = "unreadable"

\* C9  Progress monotonicity: the emitted progress values never decrease.
ProgressMonotone ==
    \A i, j \in 1..Len(progress_emitted) :
        i <= j => progress_emitted[i] <= progress_emitted[j]

\* C9 witness: a scan that emitted a progress value for each of its files.
ProgressMonotoneWitness ==
    /\ Len(progress_emitted) = MaxFiles
    /\ progress_emitted[1] < progress_emitted[MaxFiles]

EmptyScan == pc \notin {"idle", "walk"} /\ total_files = 0

\* C12  Empty-directory scan: the terminal result is the next step of run
\* after the enumeration, with an empty duplicates mapping; no worker is
\* started, no progress is emitted, and the all-groups view is empty.
EmptyDirectoryScan ==
    EmptyScan =>
        /\ pc \in {"check", "done"}
        /\ pc = "done" => finished_emitted = <<EmptyDict>>
        /\ submitted = 0
        /\ \A p \in Paths : task[p] = "none"
        /\ progress_emitted = <<>>
        /\ processed = 0
        /\ Displayed => /\ duplicates_only = EmptyDict
                        /\ all_file_hashes = EmptyDict

\* C12 witness: the result of a scan of an empty directory was displayed.
EmptyDirectoryWitness ==
    /\ EmptyScan
    /\ directory = "dir"
    /\ Displayed
    /\ btn_find_enabled

\* C13  Scan-start validation: when the root is missing or is not a
\* directory no thread and no worker is started, nothing is emitted, and
\* the failure is reported at once by find_duplicates.
ScanStartValidation ==
    directory # "dir" =>
        /\ pc = "idle"
        /\ btn_find_enabled
        /\ finished_emitted = <<>>
        /\ progress_emitted = <<>>
        /\ status_message \in {"", "Invalid directory selected."}

\* The tree did not change since os.walk listed it.
TreeUnchanged == \A i \in 1..Len(file_paths) : fstatus[file_paths[i]] # "absent"

\* The duplicate groups of a mapping as a set of path-sets.
GroupSets(d) == {Range(d[h]) : h \in DOMAIN d}

\* The sets of two or more readable files of equal content: a function of
\* the tree alone.
TreeDuplicateSets ==
    {S \in SUBSET Paths :
        /\ Cardinality(S) >= 2
        /\ \E c \in Contents :
              S = {p \in Paths : fstatus[p] = "readable" /\ content[p] = c}}

\* C14  Idempotence of grouping: for an unchanging tree the duplicate
\* groups of a scan, as a set of path-sets, are determined by the tree and
\* not by the interleaving of the workers, so two scans yield the same.
GroupingIdempotent ==
    (Emitted /\ TreeUnchanged) => GroupSets(Terminal) = TreeDuplicateSets

\* C14 witness: a scan of an unchanged full tree with a duplicate group
\* whose results were consumed out of enumeration order.
GroupingIdempotentWitness ==
    /\ Emitted
    /\ TreeUnchanged
    /\ TreeDuplicateSets # {}
    /\ Len(consumed) = MaxFiles
    /\ consumed[1] # file_paths[1]

\* Paths compare as their indices: the listing order of os.walk is taken as
\* the order of the path strings.
SortedByPath(s) == \A i, j \in 1..Len(s) : i < j => s[i] < s[j]

\* C15  Deterministic output: in the final result the members of every
\* duplicate group are ordered by path.
GroupsSortedByPath ==
    Emitted => \A h \in DOMAIN Terminal : SortedByPath(Terminal[h])

\* Position of a consumed path in the order of consumption.
Position(p) == CHOOSE i \in 1..Len(consumed) : consumed[i] = p

\* C16  First-discovery order: in every emitted duplicate group the paths
\* stand in the order in which the aggregation loop consumed their results.
DiscoveryOrder ==
    Emitted =>
        \A h \in DOMAIN Terminal :
            \A i, j \in 1..Len(Terminal[h]) :
                i < j => Position(Terminal[h][i]) < Position(Terminal[h][j])

\* C16 witness: a group whose first member is not the first in path order.
DiscoveryOrderWitness ==
    /\ Emitted
    /\ \E h \in DOMAIN Terminal : ~SortedByPath(Terminal[h])

\* C17  Only the aggregation loop touches the fingerprint index: hashes and
\* duplicates change in no step but an iteration of the as_completed loop,
\* and a pool thread finishing md5 changes nothing but its own future.
IndexOwnedByLoop ==
    [][/\ <<hashes, duplicates>>' # <<hashes, duplicates>> =>
              /\ pc \in {"loop", "dc_loop"}
              /\ Len(consumed') = Len(consumed) + 1
       /\ \A p \in Paths :
              (task[p] = "running" /\ task'[p] = "done") =>
                  /\ hashes' = hashes
                  /\ duplicates' = duplicates
                  /\ \A q \in Paths \ {p} :
                        outcome'[q] = outcome[q] /\ task'[q] = task[q]]_vars

\* C17 witness: the loop has filled the index in part while one future is
\* finished and unconsumed and another task is still running.
IndexOwnedWitness ==
    /\ pc = "loop"
    /\ DOMAIN hashes # {}
    /\ \E p, q \in Paths : task[p] = "done" /\ task[q] = "running"

\* C18  Bounded parallelism: at most PoolSize files are hashed at a time.
BoundedParallelism == Cardinality(Running) <= PoolSize

\* C18 witness: the pool is full while a submitted file waits.
BoundedParallelismWitness ==
    /\ Cardinality(Running) = PoolSize
    /\ \E p \in Paths : task[p] = "queued"

TaskRank(t) ==
    CASE t = "none" -> 0
      [] t = "queued" -> 1
      [] t = "running" -> 2
      [] t = "done" -> 3
      [] t = "consumed" -> 4

\* C19  No retry: every enumerated path is submitted exactly once; a task
\* never returns to an earlier stage and its outcome, a failure included,
\* is never replaced.
NoRetry ==
    /\ [][\A p \in Paths :
             /\ TaskRank(task'[p]) >= TaskRank(task[p])
             /\ task[p] \in {"done", "consumed"} => outcome'[p] = outcome[p]]_vars
    /\ [](submitted = Cardinality({p \in Paths : task[p] # "none"}))
    /\ [](pc \in {"loop", "emit", "done", "dc_loop", "dc_done"} =>
             /\ NoRepeat(file_paths)
             /\ submitted = Len(file_paths)
             /\ \A i \in 1..Len(file_paths) : task[file_paths[i]] # "none")

\* C19 witness: a finished scan of a full tree in which a file failed.
NoRetryWitness ==
    /\ pc \in {"done", "dc_done"}
    /\ Len(file_paths) = MaxFiles
    /\ Failed # {}
    /\ \A p \in Paths : task[p] = "consumed"

\* The phase of a scan the thread is in.
Phase(at) ==
    CASE at = "idle" -> 0
      [] at \in {"walk", "check"} -> 1
      [] at = "submit" -> 2
      [] at \in {"loop", "emit"} -> 3
      [] at = "done" -> 4
      [] OTHER -> 5

\* C20  Per-scan state machine: the scan moves through Idle, Enumerating,
\* Hashing, Aggregating, Done in that order and Done is terminal; files are
\* submitted only in Hashing and progress is emitted only in Aggregating,
\* both after the enumeration; the total never changes once it is set.
ScanStateMachine ==
    /\ [][Phase(pc') >= Phase(pc) /\ Phase(pc') <= 4]_vars
    /\ [][pc = "done" => pc' = "done"]_vars
    /\ [][(\E p \in Paths : task[p] = "none" /\ task'[p] # "none") => Phase(pc) = 2]_vars
    /\ [][progress_emitted' # progress_emitted => Phase(pc) = 3]_vars
    /\ [][pc \notin {"idle", "walk"} =>
             total_files' = total_files /\ file_paths' = file_paths]_vars
    /\ [](pc \in {"idle", "walk"} =>
             /\ \A p \in Paths : task[p] = "none"
             /\ progress_emitted = <<>>)

\* C20 witness: a scan of a full tree that has reached Done.
ScanStateMachineWitness ==
    /\ pc = "done"
    /\ total_files = MaxFiles
    /\ Len(progress_emitted) = MaxFiles

\* The paths held by a dictionary of groups.
PathsIn(d) == UNION {Range(d[h]) : h \in DOMAIN d}

\* C21: no state survives between scans.  Once the result of a scan has been
\* displayed, duplicates_only and all_file_hashes hold the fingerprints and
\* paths of the files that this scan enumerated and hashed, and nothing of
\* an earlier scan: all_file_hashes has exactly the fingerprints of the
\* scan, each with exactly the paths of the scan that have it, and
\* duplicates_only has only fingerprints of the scan, each with exactly
\* those paths.
NoStateSurvives ==
    Displayed =>
        /\ DOMAIN all_file_hashes = Fingerprints
        /\ \A h \in DOMAIN all_file_hashes : Range(all_file_hashes[h]) = PathsOf(h)
        /\ DOMAIN duplicates_only \subseteq Fingerprints
        /\ \A h \in DOMAIN duplicates_only : Range(duplicates_only[h]) = PathsOf(h)
        /\ PathsIn(all_file_hashes) \subseteq Range(file_paths)

\* A later scan has emitted its result, which display_duplicates is about to
\* handle, while the GUI still holds the groups of an earlier scan, among
\* them a fingerprint and a path that the later scan did not produce.
NoStateSurvivesWitness ==
    /\ Emitted
    /\ ~Displayed
    /\ status_message = "Duplicate search completed."
    /\ DOMAIN duplicates_only # {}
    /\ \E h \in DOMAIN all_file_hashes : h \notin Fingerprints
    /\ \E p \in PathsIn(all_file_hashes) : p \notin Range(file_paths)

\* The files of the subdirectory whose listing failed.
Skipped == {p \in Paths : fstatus[p] # "absent" /\ ~Listable(p)}

ReadOnlyScan == [][progVars' # progVars => UNCHANGED fsVars]_vars

\* A scan of a tree with non-empty files is over and displayed: the files
\* were opened and hashed, a duplicate group was found.
ReadOnlyScanWitness ==
    /\ pc = "done"
    /\ Displayed
    /\ DOMAIN duplicates_only # {}
    /\ \E p \in Succeeded : content[p] # <<>>

\* C24: collect_device_info returns a dictionary when the device is found
\* and None when it is not, for both values of use_siegfried; a failure of
\* the format identification is recorded in the dictionary and never leaves
\* the function as an exception.
CollectReturnsValue ==
    /\ dev_pc # "raised"
    /\ dev_pc = "return_dict" => device_found
    /\ dev_pc = "return_none" => ~device_found

\* C25: at most one DuplicateFinderThread started from the GUI is active.
\* Whenever the find button is enabled no scan is under way and no result
\* awaits its display, so that a new thread is only started when the
\* previous one is over; from the start of a scan to the display of its
\* result the button is disabled; the result is emitted after
\* _result_all_hashes has received the hashes of that same scan, and the
\* view display_duplicates builds combines the emitted duplicates with them.
OneScanAtATime ==
    /\ btn_find_enabled =>
          (pc \in {"idle", "done"} /\ delivered = Len(finished_emitted))
    /\ (pc # "idle" /\ ~Displayed) => ~btn_find_enabled
    /\ Emitted => (pc = "done" /\ result_all_hashes = hashes)
    /\ Displayed => all_file_hashes = AllGroups(Terminal, hashes)

\* The result of a later scan, with a duplicate group and a unique file,
\* awaits its display: the button is still disabled and the GUI shows the
\* result of the scan before.
OneScanWitness ==
    /\ Emitted
    /\ ~Displayed
    /\ ~btn_find_enabled
    /\ status_message = "Duplicate search completed."
    /\ DOMAIN Terminal # {}
    /\ DOMAIN result_all_hashes # DOMAIN Terminal

\* C26: every scan started by find_duplicates eventually enables the find
\* button again, on the path of the empty tree as on the normal path, and a
\* start rejected for an invalid directory never disables the button.
ButtonReenabled ==
    /\ (~btn_find_enabled) ~> btn_find_enabled
    /\ [][status_message' = "Invalid directory selected." => btn_find_enabled']_vars

\* A scan that found no file is over, its empty result displayed, and the
\* button is enabled again.
ButtonReenabledWitness ==
    /\ pc = "done"
    /\ total_files = 0
    /\ Displayed
    /\ btn_find_enabled
    /\ status_message = "Duplicate search completed."

\* The number of results of fingerprint h that the aggregation loop has
\* consumed so far.
ConsumedWith(h) ==
    Cardinality({i \in 1..Len(consumed) : Fingerprint(consumed[i]) = h})

\* C27: after each consumed result, every key of duplicates is a key of
\* hashes, every list of duplicates has at least two paths and starts with
\* the path hashes holds for its fingerprint, and the number of paths
\* recorded for a fingerprint (the list in duplicates, or the one path in
\* hashes when there is no list) is the number of results of that
\* fingerprint consumed so far; a fingerprint not yet consumed is not a key.
AggregationState ==
    /\ DOMAIN duplicates \subseteq DOMAIN hashes
    /\ \A h \in DOMAIN duplicates :
          /\ Len(duplicates[h]) >= 2
          /\ duplicates[h][1] = hashes[h]
    /\ \A h \in DOMAIN hashes :
          (IF h \in DOMAIN duplicates THEN Len(duplicates[h]) ELSE 1) = ConsumedWith(h)
    /\ \A i \in 1..Len(consumed) :
          Fingerprint(consumed[i]) # None => Fingerprint(consumed[i]) \in DOMAIN hashes

\* The loop has consumed at least three results, among them two of one
\* fingerprint and one of another: two fingerprints are known, one of them
\* with a group.
AggregationStateWitness ==
    /\ pc = "loop"
    /\ Len(consumed) >= 3
    /\ DOMAIN duplicates # {}
    /\ DOMAIN hashes # DOMAIN duplicates

\* collect_device_info is over: it returned or raised.
CollectOver == dev_pc \in {"return_dict", "return_none", "raised"}

RECURSIVE SumValues(_)
SumValues(d) ==
    IF DOMAIN d = {} THEN 0
    ELSE LET k == CHOOSE x \in DOMAIN d : TRUE
         IN  d[k] + SumValues([x \in (DOMAIN d) \ {k} |-> d[x]])

\* C29: a format scan examines at most max_files files.  On the Siegfried
\* path and on the lightweight path the walk never goes past the file that
\* brings count to max_files, and the list handed to Siegfried has at most
\* max_files paths.  A lightweight scan always reports 'Scanned Files' and
\* 'File Types': the former is the smaller of the number of files of the
\* tree and max_files, and it is the sum of the counts of 'File Types'.
FormatScanBounded ==
    /\ count <= max_files
    /\ Len(sf_file_paths) <= max_files
    /\ dev_pc \in {"sf_walk", "sf_run", "sf_parse"} => Len(sf_file_paths) = count
    /\ (dev_pc = "return_dict" /\ scan_exists /\ ~use_siegfried) =>
          /\ {"Scanned Files", "File Types"} \subseteq DOMAIN device_info
          /\ device_info["Scanned Files"] = Min(Len(tree_exts), max_files)
          /\ device_info["Scanned Files"] = SumValues(device_info["File Types"])

\* A lightweight scan of a tree with more than max_files files, with and
\* without extension among the first ones, has returned: it reports
\* max_files scanned files.
FormatScanWitness ==
    /\ dev_pc = "return_dict"
    /\ ~use_siegfried
    /\ Len(tree_exts) > max_files
    /\ "File Types" \in DOMAIN device_info
    /\ device_info["Scanned Files"] = max_files
    /\ DOMAIN device_info["File Types"] = {"no_extension", ".txt"}

\* C30: export_device exports every selected element.  Once the row is
\* built, for each selected key the row holds the value info has for that
\* key in some column, whatever the similarity scores are, also when several
\* selected keys have the same existing column as their best match.
ExportsEverySelected ==
    exp_pc = "exported" =>
        \A i \in 1..Len(selected_keys) :
            \E col \in DOMAIN new_row : new_row[col] = info[selected_keys[i]]

====
